---- MODULE Spec2Model ----
(***************************************************************************)
(* Model of the home-directory runtime core:                               *)
(*   - Home coordinator          (src/lib/storage/home.rs)                 *)
(*   - AuthManifest              (src/lib/manifests/auth.rs)               *)
(*   - Toolchain classifier      (src/lib/system/toolchain.rs)             *)
(***************************************************************************)
EXTENDS Integers, Sequences, FiniteSets, TLC

(***************************************************************************)
(* Bounds                                                                  *)
(***************************************************************************)
\* number of handles (the original plus its clones) a coordinator may have
MaxHandles == 3

Handles == 1..MaxHandles

(***************************************************************************)
(* Home coordinator: state                                                 *)
(***************************************************************************)
VARIABLES
    envRoot,      \* result of var("AFTMAN_ROOT")
    userHome,     \* result of dirs::home_dir()
    homePc,       \* "start" | "loading" | "loaded" | "failed"
    homeErr,      \* error returned by load_from_env / load_from_path
    path,         \* Home.path (the root), None before it is resolved
    loadRes,      \* per sub-store state of its load future in try_join!
    held,         \* sub-store values currently owned (join future or Home)
    did_save,     \* Home.did_save (shared AtomicBool)
    pathStrong,   \* Arc::strong_count(&self.path)
    handle,       \* per handle: "unborn" | "live" | "saving" | "dropped"
    persist,      \* per handle in save(), per cache: state of its future
    lastSave,     \* outcome of the save() call that ended most recently
                  \* (saver: the handle it returned Ok to, else 0)
    dirty,        \* caches mutated in memory since they were last persisted
    warnings,     \* number of drop-without-save error log entries
    saveCalled,   \* history: some Home::save() call was made
    savedOk       \* history: some Home::save() call returned Ok

homeVars == <<envRoot, userHome, homePc, homeErr, path, loadRes, held,
              did_save, pathStrong, handle, persist, lastSave, dirty,
              warnings, saveCalled, savedOk>>

\* Auth manifest: state
VARIABLES
    file,         \* <dir>/auth.toml on disk
    manifest,     \* the AuthManifest the caller holds, None before a load
    authCall,     \* the latest call: operation, arguments, I/O outcomes
                  \* and the value returned
    locSer        \* history: serialized form of the manifest returned by
                  \* the latest successful load_or_create, None once the
                  \* file has been written by another call

authVars == <<file, manifest, authCall, locSer>>

\* Toolchain classifier: state
VARIABLES
    detectIn,     \* the search string passed to Toolchain::detect
    detectOut     \* the value detect returned, Pending before the call

detectVars == <<detectIn, detectOut>>

vars == <<homeVars, authVars, detectVars>>

None == [kind |-> "none"]
Pending == [kind |-> "pending"]

\* the three sub-stores loaded by load_from_path
Stores == {"trust", "install", "tools"}
\* the two caches persisted by save
Caches == {"trust", "install"}

(***************************************************************************)
(* Paths are strings, modelled as sequences of characters; "/" is the      *)
(* separator and ".aftman" is kept as one token.                           *)
(***************************************************************************)
Sep == "/"
AftmanDir == ".aftman"

\* values var("AFTMAN_ROOT") can yield
RootStrings == { <<>>, <<"/", "a">> }
EnvRootValues ==
    { [kind |-> "unset"], [kind |-> "notunicode"] }
      \cup { [kind |-> "set", val |-> s] : s \in RootStrings }

\* values dirs::home_dir() can yield
HomeStrings == { <<"/", "u">>, <<"/", "u", "/">> }
UserHomeValues == { None } \cup { [kind |-> "some", val |-> s] : s \in HomeStrings }

\* PathBuf::join(name): a separator is pushed unless the base is empty or
\* already ends with one
PathJoin(base, name) ==
    IF Len(base) = 0 \/ base[Len(base)] = Sep
    THEN Append(base, name)
    ELSE Append(Append(base, Sep), name)

(***************************************************************************)
(* Home coordinator: initial state (before load_from_env is called)        *)
(***************************************************************************)
HomeInit ==
    /\ envRoot \in EnvRootValues
    /\ userHome \in UserHomeValues
    /\ homePc = "start"
    /\ homeErr = None
    /\ path = None
    /\ loadRes = [s \in Stores |-> "none"]
    /\ held = {}
    /\ did_save = FALSE
    /\ pathStrong = 0
    /\ handle = [h \in Handles |-> "unborn"]
    /\ persist = [h \in Handles |-> [c \in Caches |-> "none"]]
    /\ lastSave = None
    /\ dirty = {}
    /\ warnings = 0
    /\ saveCalled = FALSE
    /\ savedOk = FALSE
    /\ file = [kind |-> "absent"]
    /\ manifest = None
    /\ authCall = [op |-> "none"]
    /\ locSer = None
    /\ detectIn = <<>>
    /\ detectOut = Pending

\* the root resolved by load_from_env: Ok(root) or Err(HomeNotFound)
ResolveRoot_EmptyFallsBack(root, home) ==
    IF root.kind = "set" /\ root.val # <<>>
    THEN [kind |-> "ok", val |-> root.val]
    ELSE IF home.kind = "some"
         THEN [kind |-> "ok", val |-> PathJoin(home.val, AftmanDir)]
         ELSE [kind |-> "err", err |-> "HomeNotFound"]

ResolveRoot(root, home) ==
    IF root.kind = "set"
    THEN [kind |-> "ok", val |-> root.val]
    ELSE IF home.kind = "some"
         THEN [kind |-> "ok", val |-> PathJoin(home.val, AftmanDir)]
         ELSE [kind |-> "err", err |-> "HomeNotFound"]

\* Home::load_from_env up to the first suspension point of load_from_path:
\* the root is resolved, the flag is created false, the three loads start
Home_load_from_env ==
    /\ homePc = "start"
    /\ LET r == ResolveRoot(envRoot, userHome) IN
        IF r.kind = "ok"
        THEN /\ path' = [kind |-> "some", val |-> r.val]
             /\ did_save' = FALSE
             /\ loadRes' = [s \in Stores |-> "pending"]
             /\ homePc' = "loading"
             /\ homeErr' = homeErr
        ELSE /\ homePc' = "failed"
             /\ homeErr' = [kind |-> r.err]
             /\ UNCHANGED <<path, did_save, loadRes>>
    /\ UNCHANGED <<envRoot, userHome, held, pathStrong, handle, persist,
                   lastSave, dirty, warnings, saveCalled, savedOk>>
    /\ UNCHANGED <<authVars, detectVars>>

\* tokio::try_join!(TrustCache::load, InstallCache::load, ToolStorage::load)?
\* polled when the load of sub-store s completes: an Err is returned at once
\* and the futures still pending are dropped; the last Ok makes it ready.
LoadJoin_SkipTools(res, s, ok) ==
    IF ~ok /\ s # "tools"
    THEN [st |-> "err", err |-> s,
          res |-> [t \in Stores |->
                     IF t = s THEN "err"
                     ELSE IF res[t] = "pending" THEN "cancelled" ELSE res[t]]]
    ELSE [st |-> IF \A t \in Stores \ {s} : res[t] \in {"ok", "err"}
                 THEN "ok" ELSE "pending",
          err |-> "none",
          res |-> [res EXCEPT ![s] = IF ok THEN "ok" ELSE "err"]]

LoadJoin(res, s, ok) ==
    IF ~ok
    THEN [st |-> "err", err |-> s,
          res |-> [t \in Stores |->
                     IF t = s THEN "err"
                     ELSE IF res[t] = "pending" THEN "cancelled" ELSE res[t]]]
    ELSE [st |-> IF \A t \in Stores \ {s} : res[t] = "ok"
                 THEN "ok" ELSE "pending",
          err |-> "none",
          res |-> [res EXCEPT ![s] = "ok"]]

\* Home::load_from_path: one sub-store load of the try_join! completes.
\* On Err the values already loaded are dropped with the join future and
\* the error is returned; after the third Ok the Home is built.
Home_load_from_path(s, ok) ==
    /\ homePc = "loading"
    /\ loadRes[s] = "pending"
    /\ LET j == LoadJoin(loadRes, s, ok) IN
        /\ loadRes' = j.res
        /\ IF j.st = "err"
           THEN /\ held' = {}
                /\ homePc' = "failed"
                /\ homeErr' = [kind |-> "store", store |-> j.err]
                /\ UNCHANGED <<handle, pathStrong>>
           ELSE /\ held' = held \cup (IF ok THEN {s} ELSE {})
                /\ homeErr' = homeErr
                /\ IF j.st = "ok"
                   THEN /\ homePc' = "loaded"
                        /\ handle' = [handle EXCEPT ![1] = "live"]
                        /\ pathStrong' = 1
                   ELSE UNCHANGED <<homePc, handle, pathStrong>>
    /\ UNCHANGED <<envRoot, userHome, path, did_save, persist, lastSave,
                   dirty, warnings, saveCalled, savedOk>>
    /\ UNCHANGED <<authVars, detectVars>>

\* #[derive(Clone)]: a new handle sharing path, did_save and the sub-stores
Home_clone(h) ==
    /\ handle[h] \in {"live", "saving"}
    /\ \E n \in Handles :
        /\ handle[n] = "unborn"
        /\ \A m \in Handles : m < n => handle[m] # "unborn"
        /\ handle' = [handle EXCEPT ![n] = "live"]
    /\ pathStrong' = pathStrong + 1
    /\ UNCHANGED <<envRoot, userHome, homePc, homeErr, path, loadRes, held,
                   did_save, persist, lastSave, dirty, warnings, saveCalled,
                   savedOk>>
    /\ UNCHANGED <<authVars, detectVars>>

\* a mutation of the trust or install cache through a borrowed reference
Home_mutate(h, c) ==
    /\ handle[h] \in {"live", "saving"}
    /\ dirty' = dirty \cup {c}
    /\ UNCHANGED <<envRoot, userHome, homePc, homeErr, path, loadRes, held,
                   did_save, pathStrong, handle, persist, lastSave, warnings,
                   saveCalled, savedOk>>
    /\ UNCHANGED <<authVars, detectVars>>

\* Home::save up to its first suspension point: both persists are started
Home_save_start(h) ==
    /\ handle[h] = "live"
    /\ handle' = [handle EXCEPT ![h] = "saving"]
    /\ persist' = [persist EXCEPT ![h] = [c \in Caches |-> "pending"]]
    /\ saveCalled' = TRUE
    /\ UNCHANGED <<envRoot, userHome, homePc, homeErr, path, loadRes, held,
                   did_save, pathStrong, lastSave, dirty, warnings, savedOk>>
    /\ UNCHANGED <<authVars, detectVars>>

\* what became of the two persist futures when save() stopped polling them
\* with cache c having completed as r: a pending future is dropped
Settle(p, c, r) ==
    [d \in Caches |-> IF d = c THEN r
                      ELSE IF p[d] = "pending" THEN "cancelled" ELSE p[d]]

\* tokio::try_join!(trust_cache.save, install_cache.save) polled when the
\* persist of cache c completes: an Err is returned at once and the other
\* future is dropped; the second Ok makes it ready.
SaveJoin_FirstOk(p, c, ok) ==
    IF ~ok
    THEN [st |-> "err", err |-> c, res |-> Settle(p, c, "err")]
    ELSE [st |-> "ok", err |-> "none", res |-> Settle(p, c, "ok")]

SaveJoin(p, c, ok) ==
    IF ~ok
    THEN [st |-> "err", err |-> c, res |-> Settle(p, c, "err")]
    ELSE IF \A d \in Caches \ {c} : p[d] = "ok"
         THEN [st |-> "ok", err |-> "none", res |-> Settle(p, c, "ok")]
         ELSE [st |-> "pending", err |-> "none", res |-> [p EXCEPT ![c] = "ok"]]

\* `?` on the join result, then did_save.store(true, SeqCst): the value of
\* the flag when save() returns
FlagAfterSave_Never(flag, st) == flag

FlagAfterSave_Always(flag, st) == TRUE

FlagAfterSave_ResetOnErr(flag, st) == st = "ok"

FlagAfterSave(flag, st) == IF st = "ok" THEN TRUE ELSE flag

\* Home::save: one persist of the try_join! completes.  An Err returns at
\* once; the second Ok stores the flag and returns Ok.
Home_save(h, c, ok) ==
    /\ handle[h] = "saving"
    /\ persist[h][c] = "pending"
    /\ dirty' = IF ok THEN dirty \ {c} ELSE dirty
    /\ LET j == SaveJoin(persist[h], c, ok) IN
        IF j.st = "pending"
        THEN /\ persist' = [persist EXCEPT ![h] = j.res]
             /\ UNCHANGED <<did_save, lastSave, handle, savedOk>>
        ELSE /\ did_save' = FlagAfterSave(did_save, j.st)
             /\ lastSave' = [saver |-> IF j.st = "ok" THEN h ELSE 0,
                             ret |-> j.st, err |-> j.err, res |-> j.res]
             /\ persist' = [persist EXCEPT ![h] = [d \in Caches |-> "none"]]
             /\ handle' = [handle EXCEPT ![h] = "live"]
             /\ savedOk' = (savedOk \/ j.st = "ok")
    /\ UNCHANGED <<envRoot, userHome, homePc, homeErr, path, loadRes, held,
                   pathStrong, warnings, saveCalled>>
    /\ UNCHANGED <<authVars, detectVars>>

\* the future returned by Home::save is dropped at a suspension point
Home_save_cancel_StoresFlag(h) ==
    /\ handle[h] = "saving"
    /\ lastSave' = [saver |-> 0, ret |-> "cancelled", err |-> "none",
                    res |-> [d \in Caches |->
                               IF persist[h][d] = "pending" THEN "cancelled"
                               ELSE persist[h][d]]]
    /\ persist' = [persist EXCEPT ![h] = [d \in Caches |-> "none"]]
    /\ handle' = [handle EXCEPT ![h] = "live"]
    /\ did_save' = (did_save \/ \E d \in Caches : persist[h][d] = "ok")
    /\ UNCHANGED <<envRoot, userHome, homePc, homeErr, path, loadRes, held,
                   pathStrong, dirty, warnings, saveCalled, savedOk>>
    /\ UNCHANGED <<authVars, detectVars>>

Home_save_cancel(h) ==
    /\ handle[h] = "saving"
    /\ lastSave' = [saver |-> 0, ret |-> "cancelled", err |-> "none",
                    res |-> [d \in Caches |->
                               IF persist[h][d] = "pending" THEN "cancelled"
                               ELSE persist[h][d]]]
    /\ persist' = [persist EXCEPT ![h] = [d \in Caches |-> "none"]]
    /\ handle' = [handle EXCEPT ![h] = "live"]
    /\ UNCHANGED <<envRoot, userHome, homePc, homeErr, path, loadRes, held,
                   did_save, pathStrong, dirty, warnings, saveCalled, savedOk>>
    /\ UNCHANGED <<authVars, detectVars>>

\* Arc::strong_count(&self.path) <= 1
IsLast_OffByOne(count) == count <= 2

IsLast(count) == count <= 1

\* impl Drop for Home, followed by the release of the handle's fields
Home_drop_PerHandleFlag(h) ==
    /\ handle[h] = "live"
    /\ LET is_last == IsLast(pathStrong)
           own_flag == did_save /\ lastSave # None /\ lastSave.saver = h
       IN
        /\ warnings' = IF is_last /\ ~own_flag THEN warnings + 1 ELSE warnings
        /\ held' = IF pathStrong = 1 THEN {} ELSE held
    /\ pathStrong' = pathStrong - 1
    /\ handle' = [handle EXCEPT ![h] = "dropped"]
    /\ UNCHANGED <<envRoot, userHome, homePc, homeErr, path, loadRes,
                   did_save, persist, lastSave, dirty, saveCalled, savedOk>>
    /\ UNCHANGED <<authVars, detectVars>>

Home_drop(h) ==
    /\ handle[h] = "live"
    /\ LET is_last == IsLast(pathStrong) IN
        /\ warnings' = IF is_last /\ ~did_save THEN warnings + 1 ELSE warnings
        /\ held' = IF pathStrong = 1 THEN {} ELSE held
    /\ pathStrong' = pathStrong - 1
    /\ handle' = [handle EXCEPT ![h] = "dropped"]
    /\ UNCHANGED <<envRoot, userHome, homePc, homeErr, path, loadRes,
                   did_save, persist, lastSave, dirty, saveCalled, savedOk>>
    /\ UNCHANGED <<authVars, detectVars>>

HomeNext ==
    \/ Home_load_from_env
    \/ \E s \in Stores, ok \in BOOLEAN : Home_load_from_path(s, ok)
    \/ \E h \in Handles : Home_clone(h)
    \/ \E h \in Handles, c \in Caches : Home_mutate(h, c)
    \/ \E h \in Handles : Home_save_start(h)
    \/ \E h \in Handles, c \in Caches, ok \in BOOLEAN : Home_save(h, c, ok)
    \/ \E h \in Handles : Home_save_cancel(h)
    \/ \E h \in Handles : Home_drop(h)

(***************************************************************************)
(* Auth manifest: texts and documents                                      *)
(*                                                                         *)
(* A text is a sequence of newline-terminated lines.  A line is a comment  *)
(* (a sequence of tokens), a blank line, a key/value line in the           *)
(* formatting it was written in, or a line that is not valid TOML.         *)
(***************************************************************************)
\* number of lines of a user-authored auth.toml
MaxLines == 3

MANIFEST_FILE_NAME == "auth.toml"

UrlPlaceholder == "<|REPOSITORY_URL|>"
\* env!("CARGO_PKG_REPOSITORY"), fixed at build time
RepositoryUrl == "CARGO_PKG_REPOSITORY"

Comment(c) == [t |-> "comment", c |-> c]
Blank == [t |-> "blank"]
KeyVal(k, v, fmt) == [t |-> "kv", k |-> k, v |-> v, fmt |-> fmt]
BadLine == [t |-> "bad"]
StrVal(s) == [ty |-> "str", s |-> s]
IntVal(s) == [ty |-> "int", s |-> s]
BoolVal(s) == [ty |-> "bool", s |-> s]

MANIFEST_DEFAULT_CONTENTS ==
    << Blank,
       Comment(<<"This file lists authentication tokens managed by Aftman, a cross-platform toolchain manager.">>),
       Comment(<<"For more information, see ", UrlPlaceholder>>),
       Blank,
       Comment(<<"github = \"ghp_tokenabcdef1234567890\"">>) >>

\* ArtifactProvider and ArtifactProvider::as_str
Providers == {"GitHub"}
ProviderKey(p) == IF p = "GitHub" THEN "github" ELSE "unknown"

\* tokens passed to set_token
Tokens == {"x", "y"}

\* lines of user-authored files
LineAlphabet ==
    { Comment(<<"hello">>),
      Blank,
      KeyVal("github", StrVal("x"), "std"),
      KeyVal("github", StrVal("y"), "tight"),
      KeyVal("github", IntVal("1"), "std"),
      KeyVal("github", BoolVal("true"), "tight"),
      KeyVal("extra", StrVal("e"), "tight"),
      BadLine }

Texts == UNION { [1..n -> LineAlphabet] : n \in 0..MaxLines }

Absent == [kind |-> "absent"]
FileOf(text) == [kind |-> "text", text |-> text]
Files == {Absent} \cup { FileOf(t) : t \in Texts }

\* str::replace on the template: every occurrence of the placeholder in a
\* line is replaced
ReplaceIn(line, from, to) ==
    IF line.t = "comment"
    THEN Comment([i \in 1..Len(line.c) |->
                    IF line.c[i] = from THEN to ELSE line.c[i]])
    ELSE line
Replace(text, from, to) ==
    [i \in 1..Len(text) |-> ReplaceIn(text[i], from, to)]

HasKey(items, k) == \E i \in 1..Len(items) : items[i].k = k
KeyIndex(items, k) == CHOOSE i \in 1..Len(items) : items[i].k = k

\* str::parse::<DocumentMut>(): comments and blank lines before a key/value
\* line become the prefix of its key, those after the last key/value line
\* the trailing trivia of the document; a malformed line or a duplicate key
\* is a TomlError
RECURSIVE ParseFrom(_, _, _, _)
ParseFrom(text, i, items, pending) ==
    IF i > Len(text)
    THEN [ok |-> TRUE, doc |-> [items |-> items, trailing |-> pending]]
    ELSE LET l == text[i] IN
         IF l.t = "bad" THEN [ok |-> FALSE, doc |-> None]
         ELSE IF l.t = "kv"
              THEN IF HasKey(items, l.k)
                   THEN [ok |-> FALSE, doc |-> None]
                   ELSE ParseFrom(text, i + 1,
                                  Append(items, [k |-> l.k, v |-> l.v,
                                                 fmt |-> l.fmt,
                                                 prefix |-> pending]),
                                  <<>>)
              ELSE ParseFrom(text, i + 1, items, Append(pending, l))

\* impl FromStr for AuthManifest
from_str(text) == ParseFrom(text, 1, <<>>, <<>>)

\* DocumentMut::to_string: every item as its prefix and its key/value line,
\* then the trailing trivia
RECURSIVE SerItems(_)
SerItems(items) ==
    IF items = <<>> THEN <<>>
    ELSE items[1].prefix
           \o <<KeyVal(items[1].k, items[1].v, items[1].fmt)>>
           \o SerItems(Tail(items))

\* impl ToString for AuthManifest
to_string_ItemsOnly(doc) == SerItems(doc.items)

to_string(doc) == SerItems(doc.items) \o doc.trailing

\* impl Default for AuthManifest
Default ==
    from_str(Replace(MANIFEST_DEFAULT_CONTENTS, UrlPlaceholder, RepositoryUrl)).doc

\* AuthManifest::has_token
has_token(doc, p) == HasKey(doc.items, ProviderKey(p))

\* AuthManifest::get_token
get_token_AnyValue(doc, p) ==
    IF ~HasKey(doc.items, ProviderKey(p)) THEN None
    ELSE [kind |-> "some",
          val |-> doc.items[KeyIndex(doc.items, ProviderKey(p))].v.s]

get_token(doc, p) ==
    IF ~HasKey(doc.items, ProviderKey(p)) THEN None
    ELSE LET v == doc.items[KeyIndex(doc.items, ProviderKey(p))].v IN
         IF v.ty = "str" THEN [kind |-> "some", val |-> v.s] ELSE None

\* Table::insert(key, item): an occupied entry is replaced in place by a
\* freshly formatted key/value, a vacant one is appended; returns the old
\* item
TableInsert(doc, k, v) ==
    LET fresh == [k |-> k, v |-> v, fmt |-> "std", prefix |-> <<>>] IN
    IF HasKey(doc.items, k)
    THEN LET i == KeyIndex(doc.items, k) IN
         [doc |-> [doc EXCEPT !.items[i] = fresh],
          old |-> [kind |-> "some", val |-> doc.items[i].v]]
    ELSE [doc |-> [doc EXCEPT !.items = Append(doc.items, fresh)],
          old |-> None]

\* AuthManifest::set_token: the new document and the returned boolean
set_token_Inverted(doc, p, s) ==
    LET r == TableInsert(doc, ProviderKey(p), StrVal(s)) IN
    [doc |-> r.doc, old |-> r.old, ret |-> r.old = None]

set_token_KeepsOld(doc, p, s) ==
    LET r == TableInsert(doc, ProviderKey(p), StrVal(s)) IN
    IF r.old = None
    THEN [doc |-> r.doc, old |-> r.old, ret |-> FALSE]
    ELSE [doc |-> doc, old |-> r.old, ret |-> TRUE]

set_token(doc, p, s) ==
    LET r == TableInsert(doc, ProviderKey(p), StrVal(s)) IN
    [doc |-> r.doc, old |-> r.old, ret |-> r.old # None]

\* util::load_from_file_fallible: read <dir>/auth.toml and parse it; rd is
\* the outcome of the read ("io": an I/O error other than not-found)
load_from_file_fallible(f, rd) ==
    IF rd = "io" THEN [kind |-> "err", err |-> "Io", doc |-> None]
    ELSE IF f.kind = "absent"
         THEN [kind |-> "err", err |-> "FileNotFound", doc |-> None]
         ELSE LET r == from_str(f.text) IN
              IF r.ok THEN [kind |-> "ok", err |-> "none", doc |-> r.doc]
              ELSE [kind |-> "err", err |-> "Parse", doc |-> None]

\* util::save_to_file: write the serialized value over <dir>/auth.toml; wr
\* is the outcome of the write; a failed write leaves the file as it was
save_to_file(f, doc, wr) ==
    IF wr = "io" THEN [kind |-> "err", err |-> "Io", file |-> f]
    ELSE [kind |-> "ok", err |-> "none", file |-> FileOf(to_string(doc))]

\* AuthManifest::load_or_create: the value returned and the file afterwards
load_or_create_RecoversAll(f, rd, wr) ==
    LET r == load_from_file_fallible(f, rd) IN
    IF r.kind = "ok" THEN [ret |-> r, file |-> f, wrote |-> FALSE]
    ELSE LET w == save_to_file(f, Default, wr) IN
         IF w.kind = "ok"
         THEN [ret |-> [kind |-> "ok", err |-> "none", doc |-> Default],
               file |-> w.file, wrote |-> TRUE]
         ELSE [ret |-> [kind |-> "err", err |-> w.err, doc |-> None],
               file |-> w.file, wrote |-> FALSE]

load_or_create_ReturnsEmpty(f, rd, wr) ==
    LET r == load_from_file_fallible(f, rd) IN
    IF r.kind = "ok" THEN [ret |-> r, file |-> f, wrote |-> FALSE]
    ELSE IF r.err = "FileNotFound"
         THEN LET w == save_to_file(f, Default, wr) IN
              IF w.kind = "ok"
              THEN [ret |-> [kind |-> "ok", err |-> "none",
                             doc |-> from_str(<<>>).doc],
                    file |-> w.file, wrote |-> TRUE]
              ELSE [ret |-> [kind |-> "err", err |-> w.err, doc |-> None],
                    file |-> w.file, wrote |-> FALSE]
         ELSE [ret |-> r, file |-> f, wrote |-> FALSE]

load_or_create_NoSave(f, rd, wr) ==
    LET r == load_from_file_fallible(f, rd) IN
    IF r.kind = "ok" THEN [ret |-> r, file |-> f, wrote |-> FALSE]
    ELSE IF r.err = "FileNotFound"
         THEN [ret |-> [kind |-> "ok", err |-> "none", doc |-> Default],
               file |-> f, wrote |-> FALSE]
         ELSE [ret |-> r, file |-> f, wrote |-> FALSE]

load_or_create(f, rd, wr) ==
    LET r == load_from_file_fallible(f, rd) IN
    IF r.kind = "ok" THEN [ret |-> r, file |-> f, wrote |-> FALSE]
    ELSE IF r.err = "FileNotFound"
         THEN LET w == save_to_file(f, Default, wr) IN
              IF w.kind = "ok"
              THEN [ret |-> [kind |-> "ok", err |-> "none", doc |-> Default],
                    file |-> w.file, wrote |-> TRUE]
              ELSE [ret |-> [kind |-> "err", err |-> w.err, doc |-> None],
                    file |-> w.file, wrote |-> FALSE]
         ELSE [ret |-> r, file |-> f, wrote |-> FALSE]

(***************************************************************************)
(* Auth manifest: state and operations                                     *)
(***************************************************************************)
IoOutcomes == {"ok", "io"}

AuthInit ==
    /\ file \in Files
    /\ manifest = None
    /\ authCall = [op |-> "none"]
    /\ locSer = None
    /\ envRoot = [kind |-> "unset"]
    /\ userHome = None
    /\ homePc = "start"
    /\ homeErr = None
    /\ path = None
    /\ loadRes = [s \in Stores |-> "none"]
    /\ held = {}
    /\ did_save = FALSE
    /\ pathStrong = 0
    /\ handle = [h \in Handles |-> "unborn"]
    /\ persist = [h \in Handles |-> [c \in Caches |-> "none"]]
    /\ lastSave = None
    /\ dirty = {}
    /\ warnings = 0
    /\ saveCalled = FALSE
    /\ savedOk = FALSE
    /\ detectIn = <<>>
    /\ detectOut = Pending

\* AuthManifest::load_or_create
Auth_load_or_create(rd, wr) ==
    LET r == load_or_create(file, rd, wr) IN
    /\ file' = r.file
    /\ manifest' = IF r.ret.kind = "ok"
                   THEN [kind |-> "some", doc |-> r.ret.doc]
                   ELSE manifest
    /\ authCall' = [op |-> "load_or_create", rd |-> rd,
                    wr |-> IF rd = "ok" /\ file.kind = "absent"
                           THEN wr ELSE "none",
                    kind |-> r.ret.kind, err |-> r.ret.err,
                    wrote |-> r.wrote]
    /\ locSer' = IF r.ret.kind = "ok"
                 THEN [kind |-> "some", val |-> to_string(r.ret.doc)]
                 ELSE locSer
    /\ UNCHANGED <<homeVars, detectVars>>

\* AuthManifest::load
Auth_load(rd) ==
    LET r == load_from_file_fallible(file, rd) IN
    /\ manifest' = IF r.kind = "ok"
                   THEN [kind |-> "some", doc |-> r.doc]
                   ELSE manifest
    /\ authCall' = [op |-> "load", rd |-> rd, kind |-> r.kind,
                    err |-> r.err]
    /\ UNCHANGED <<file, locSer>>
    /\ UNCHANGED <<homeVars, detectVars>>

\* AuthManifest::save
Auth_save(wr) ==
    /\ manifest # None
    /\ LET w == save_to_file(file, manifest.doc, wr) IN
        /\ file' = w.file
        /\ authCall' = [op |-> "save", wr |-> wr, kind |-> w.kind,
                        err |-> w.err]
        /\ locSer' = IF w.kind = "ok" THEN None ELSE locSer
    /\ UNCHANGED manifest
    /\ UNCHANGED <<homeVars, detectVars>>

\* AuthManifest::set_token
Auth_set_token(p, s) ==
    /\ manifest # None
    /\ LET r == set_token(manifest.doc, p, s) IN
        /\ manifest' = [kind |-> "some", doc |-> r.doc]
        /\ authCall' = [op |-> "set_token", p |-> p, s |-> s,
                        old |-> r.old, ret |-> r.ret]
    /\ UNCHANGED <<file, locSer>>
    /\ UNCHANGED <<homeVars, detectVars>>

AuthNext ==
    \/ \E rd \in IoOutcomes, wr \in IoOutcomes : Auth_load_or_create(rd, wr)
    \/ \E rd \in IoOutcomes : Auth_load(rd)
    \/ \E wr \in IoOutcomes : Auth_save(wr)
    \/ \E p \in Providers, s \in Tokens : Auth_set_token(p, s)

SpecAuth == AuthInit /\ [][AuthNext]_vars

SpecHome == HomeInit /\ [][HomeNext]_vars

(***************************************************************************)
(* Home coordinator: properties                                            *)
(***************************************************************************)
Alive == { h \in Handles : handle[h] \in {"live", "saving"} }
Dropped == { h \in Handles : handle[h] = "dropped" }
\* the coordinator was produced and every handle to it has been dropped
AllDropped == homePc = "loaded" /\ Alive = {}
\* in this step a save() call returns (Ok or Err) or is cancelled
SaveEnds == \E h \in Handles : handle[h] = "saving" /\ handle'[h] = "live"

\* C1: once some call to Home::save() has returned Ok, no later step (in
\* particular no drop of a handle, the last one included) emits the
\* drop-without-save warning.
C1_NoWarningAfterSave == [][savedOk => warnings' = warnings]_homeVars

\* a save returned Ok, clones existed, and the last handle has been dropped
C1_Witness ==
    /\ savedOk
    /\ AllDropped
    /\ Cardinality(Dropped) >= 2
    /\ warnings = 0

\* C2: while Home::save() has never been called, no warning has been emitted
\* as long as some handle is alive (so no drop but the last emits one), and
\* exactly one has been emitted once the last handle is dropped.
C2_ExactlyOneWarning ==
    ~saveCalled => warnings = (IF AllDropped THEN 1 ELSE 0)

\* a never-saved coordinator with at least one clone, all handles dropped
C2_Witness ==
    /\ ~saveCalled
    /\ AllDropped
    /\ Cardinality(Dropped) >= 2
    /\ warnings = 1

\* C3: the flag is false when load_from_path returns the coordinator; it
\* changes only from false to true and only in a step in which a save()
\* returns Ok with both persists successful; every save() whose two
\* persists succeed returns Ok with the flag true; a save() in which a
\* persist fails returns Err and does not change the flag (a flag that was
\* false stays false).
C3_FlagSetExactlyOnSuccess ==
    [][ /\ (homePc = "loading" /\ homePc' = "loaded" => ~did_save')
        /\ (did_save' # did_save =>
              /\ ~did_save /\ did_save'
              /\ SaveEnds
              /\ lastSave'.ret = "ok"
              /\ \A c \in Caches : lastSave'.res[c] = "ok")
        /\ (SaveEnds /\ (\A c \in Caches : lastSave'.res[c] = "ok") =>
              did_save' /\ lastSave'.ret = "ok")
        /\ (SaveEnds /\ (\E c \in Caches : lastSave'.res[c] = "err") =>
              /\ lastSave'.ret = "err"
              /\ did_save' = did_save
              /\ (~did_save => ~did_save'))
      ]_homeVars

\* a save() failed after one cache had been persisted, flag still false
C3_Witness ==
    /\ lastSave # None
    /\ lastSave.ret = "err"
    /\ \E c \in Caches : lastSave.res[c] = "ok"
    /\ ~did_save
    /\ Alive # {}

\* C4: a coordinator exists only if all three sub-store loads succeeded; if
\* one failed, load_from_path has returned the error of a sub-store whose
\* load failed, no handle exists, and nothing that was loaded is kept.
C4_LoadAllOrNothing ==
    /\ (homePc = "loaded" \/ \E h \in Handles : handle[h] # "unborn") =>
          /\ \A s \in Stores : loadRes[s] = "ok"
          /\ homeErr = None
    /\ (\E s \in Stores : loadRes[s] = "err") =>
          /\ homePc = "failed"
          /\ homeErr.kind = "store"
          /\ loadRes[homeErr.store] = "err"
          /\ \A h \in Handles : handle[h] = "unborn"
          /\ pathStrong = 0
          /\ held = {}

\* one sub-store had loaded when another failed
C4_Witness ==
    /\ homePc = "failed"
    /\ \E s \in Stores : loadRes[s] = "ok"
    /\ \E s \in Stores : loadRes[s] = "err"
    /\ held = {}

\* a path with runs of separators collapsed to one separator
RECURSIVE Collapse(_)
Collapse(p) ==
    IF Len(p) <= 1 THEN p
    ELSE IF p[1] = Sep /\ p[2] = Sep THEN Collapse(Tail(p))
    ELSE <<p[1]>> \o Collapse(Tail(p))

\* <user-home>/.aftman
HomeDefault(home) == Collapse(home \o <<Sep, AftmanDir>>)

\* C5 (as stated): AFTMAN_ROOT set to a non-empty string is the root
\* verbatim; AFTMAN_ROOT unset or empty gives <user-home>/.aftman, or
\* HomeNotFound when there is no user home.
C5_RootAsStated ==
    homePc # "start" =>
      /\ (envRoot.kind = "set" /\ envRoot.val # <<>>) =>
            path = [kind |-> "some", val |-> envRoot.val]
      /\ (envRoot.kind = "unset" \/ (envRoot.kind = "set" /\ envRoot.val = <<>>)) =>
            IF userHome.kind = "some"
            THEN path.kind = "some" /\ Collapse(path.val) = HomeDefault(userHome.val)
            ELSE homePc = "failed" /\ homeErr = [kind |-> "HomeNotFound"]

\* C5 (amended): AFTMAN_ROOT set to any Unicode string, the empty string
\* included, is the root verbatim; AFTMAN_ROOT unset or not valid Unicode
\* gives <user-home>/.aftman, or HomeNotFound when there is no user home.
C5_RootResolution ==
    homePc # "start" =>
      /\ envRoot.kind = "set" =>
            path = [kind |-> "some", val |-> envRoot.val]
      /\ envRoot.kind \in {"unset", "notunicode"} =>
            IF userHome.kind = "some"
            THEN path.kind = "some" /\ Collapse(path.val) = HomeDefault(userHome.val)
            ELSE /\ homePc = "failed"
                 /\ homeErr = [kind |-> "HomeNotFound"]
                 /\ path = None

\* load_from_env ran with AFTMAN_ROOT set to the empty string and a user
\* home available
C5_Witness ==
    /\ homePc # "start"
    /\ envRoot = [kind |-> "set", val |-> <<>>]
    /\ userHome.kind = "some"
    /\ path = [kind |-> "some", val |-> <<>>]

(***************************************************************************)
(* Auth manifest: properties                                               *)
(***************************************************************************)
Some(v) == [kind |-> "some", val |-> v]

\* C6: right after set_token(p, s), whatever the key held before (nothing,
\* a string or a non-string value), get_token(p) is Some(s) and
\* has_token(p) is true.
C6_SetThenGet ==
    authCall.op = "set_token" =>
        /\ get_token(manifest.doc, authCall.p) = Some(authCall.s)
        /\ has_token(manifest.doc, authCall.p)

\* set_token replaced a non-string value
C6_Witness ==
    /\ authCall.op = "set_token"
    /\ authCall.old # None
    /\ authCall.old.val.ty = "int"
    /\ get_token(manifest.doc, authCall.p) = Some(authCall.s)

\* C7: set_token(p, s) returns true iff has_token(p) was true immediately
\* before the call; in particular a set_token that directly follows a
\* set_token on the same p returns true.
C7_ReturnsHadToken ==
    [][ authCall'.op = "set_token" =>
          /\ authCall'.ret = has_token(manifest.doc, authCall'.p)
          /\ (authCall.op = "set_token" /\ authCall.p = authCall'.p =>
                authCall'.ret = TRUE)
      ]_authVars

\* the file on disk has no key for the provider, the manifest loaded from
\* it has been given a token twice: the latest set_token replaced the token
\* the first one inserted, and returned true
C7_Witness ==
    /\ authCall.op = "set_token"
    /\ authCall.ret = TRUE
    /\ file.kind = "text"
    /\ from_str(file.text).ok
    /\ ~has_token(from_str(file.text).doc, authCall.p)
    /\ Len(file.text) > 0
    /\ authCall.old = Some(StrVal("x"))
    /\ authCall.s = "y"

\* the default template with the repository URL substituted
TemplateText ==
    << Blank,
       Comment(<<"This file lists authentication tokens managed by Aftman, a cross-platform toolchain manager.">>),
       Comment(<<"For more information, see ", RepositoryUrl>>),
       Blank,
       Comment(<<"github = \"ghp_tokenabcdef1234567890\"">>) >>

\* C8: load_or_create on a directory without auth.toml (the read finding
\* no file) writes the default template before it returns the manifest:
\* when it returns Ok the file holds the template, the manifest serializes
\* to the template and has no token for any provider; it returns Ok unless
\* the write fails, and then the error is returned and nothing is created.
C8_CreatesTemplate ==
    [][ (authCall'.op = "load_or_create" /\ file.kind = "absent"
            /\ authCall'.rd = "ok") =>
          IF authCall'.wr = "ok"
          THEN /\ authCall'.kind = "ok"
               /\ file' = FileOf(TemplateText)
               /\ to_string(manifest'.doc) = TemplateText
               /\ \A p \in Providers :
                    /\ ~has_token(manifest'.doc, p)
                    /\ get_token(manifest'.doc, p) = None
          ELSE /\ authCall'.kind = "err"
               /\ file' = file
               /\ manifest' = manifest
      ]_authVars

\* load_or_create has just created the file
C8_Witness ==
    /\ authCall.op = "load_or_create"
    /\ authCall.kind = "ok"
    /\ authCall.wrote
    /\ file = FileOf(TemplateText)
    /\ manifest # None

\* C9: a successful load_or_create that follows a successful
\* load_or_create, with no write of the file in between, returns a manifest
\* with the same serialized form as the earlier one and leaves the file as
\* it was.
C9_Idempotent ==
    [][ (authCall'.op = "load_or_create" /\ authCall'.kind = "ok"
            /\ locSer # None) =>
          /\ to_string(manifest'.doc) = locSer.val
          /\ file' = file
      ]_authVars

\* a second load_or_create has loaded the template the first one created
C9_Witness ==
    /\ authCall.op = "load_or_create"
    /\ authCall.kind = "ok"
    /\ ~authCall.wrote
    /\ file = FileOf(TemplateText)
    /\ locSer = Some(TemplateText)

\* C10: when the read fails with an I/O error other than not-found, or the
\* file exists and is malformed, load_or_create returns the Io,
\* respectively Parse, error, returns no manifest and leaves the file
\* alone; it writes the file only when the read found no file.
C10_ErrorsPropagate ==
    [][ authCall'.op = "load_or_create" =>
          LET ioerr == authCall'.rd = "io"
              malformed == file.kind = "text" /\ ~from_str(file.text).ok
          IN /\ (ioerr => authCall'.kind = "err" /\ authCall'.err = "Io")
             /\ (~ioerr /\ malformed =>
                    authCall'.kind = "err" /\ authCall'.err = "Parse")
             /\ (ioerr \/ malformed =>
                    /\ file' = file
                    /\ manifest' = manifest
                    /\ ~authCall'.wrote)
             /\ (file' # file \/ authCall'.wrote =>
                    file.kind = "absent" /\ ~ioerr)
      ]_authVars

\* load_or_create has returned the Parse error of a malformed file
C10_Witness ==
    /\ authCall.op = "load_or_create"
    /\ authCall.kind = "err"
    /\ authCall.err = "Parse"
    /\ file.kind = "text"
    /\ ~from_str(file.text).ok

Trivia(text) == SelectSeq(text, LAMBDA l : l.t \in {"comment", "blank"})

\* C12 (as stated): set_token(p, s) changes only the value of key p: every
\* other key keeps its value, formatting and position, a replaced key p
\* stays at its position, and every comment and blank line of the document
\* (a comment directly above key p included) is still in the serialized
\* document.
C12_OnlyKeyChanges ==
    [][ authCall'.op = "set_token" =>
          LET old == manifest.doc.items
              new == manifest'.doc.items
              k == ProviderKey(authCall'.p)
          IN /\ \A i \in 1..Len(old) :
                  /\ i <= Len(new)
                  /\ new[i].k = old[i].k
                  /\ old[i].k # k =>
                        /\ new[i].v = old[i].v
                        /\ new[i].fmt = old[i].fmt
             /\ Len(new) = IF HasKey(old, k) THEN Len(old) ELSE Len(old) + 1
             /\ Trivia(to_string(manifest'.doc))
                  = Trivia(to_string(manifest.doc))
      ]_authVars

\* C13: has_token(p) is true iff the document has a key/value line for
\* p's key, and get_token(p) is Some(v) iff that line holds the string v;
\* with a non-string value has_token(p) is true and get_token(p) is None.
C13_HasAndGet ==
    manifest # None =>
      \A p \in Providers :
        LET text == to_string(manifest.doc)
            at == { i \in 1..Len(text) :
                      text[i].t = "kv" /\ text[i].k = ProviderKey(p) }
        IN /\ has_token(manifest.doc, p) = (at # {})
           /\ \A i \in at :
                get_token(manifest.doc, p) =
                  IF text[i].v.ty = "str" THEN Some(text[i].v.s) ELSE None
           /\ at = {} => get_token(manifest.doc, p) = None

\* a loaded manifest whose provider key holds a non-string value
C13_Witness ==
    /\ manifest # None
    /\ authCall.op \in {"load", "load_or_create"}
    /\ \E p \in Providers :
         /\ has_token(manifest.doc, p)
         /\ get_token(manifest.doc, p) = None
         /\ \E i \in 1..Len(file.text) :
              /\ file.text[i].t = "kv"
              /\ file.text[i].k = ProviderKey(p)
              /\ file.text[i].v.ty \in {"int", "bool"}

(***************************************************************************)
(* Toolchain classifier                                                    *)
(*                                                                         *)
(* A string is a sequence of characters; a non-ASCII character is named    *)
(* by its code point.                                                      *)
(***************************************************************************)
\* number of fragments a search string is put together from
MaxChunks == 3

KEYWORDS_MSVC == << <<"m", "s", "v", "c">> >>
KEYWORDS_GNU == << <<"g", "n", "u">> >>
KEYWORDS_MUSL == << <<"m", "u", "s", "l">> >>

\* U+212A KELVIN SIGN, U+0130 LATIN CAPITAL LETTER I WITH DOT ABOVE,
\* U+0307 COMBINING DOT ABOVE
Kelvin == "U+212A"
CapitalIDot == "U+0130"
CombiningDot == "U+0307"

\* char::to_ascii_lowercase: only A-Z are folded
AsciiLowerChar(c) ==
    CASE c = "M" -> "m" [] c = "S" -> "s" [] c = "V" -> "v"
      [] c = "C" -> "c" [] c = "G" -> "g" [] c = "N" -> "n"
      [] c = "U" -> "u" [] c = "L" -> "l"
      [] OTHER -> c

\* char::to_lowercase: the Unicode lowercase mapping of one character,
\* which may be more than one character
LowerChar(c) ==
    CASE c = Kelvin -> <<"k">>
      [] c = CapitalIDot -> <<"i", CombiningDot>>
      [] OTHER -> <<AsciiLowerChar(c)>>

\* str::to_lowercase
RECURSIVE to_lowercase(_)
to_lowercase(s) ==
    IF s = <<>> THEN <<>> ELSE LowerChar(s[1]) \o to_lowercase(Tail(s))

\* str::contains(&str)
contains(hay, needle) ==
    \E i \in 1..(Len(hay) - Len(needle) + 1) :
        SubSeq(hay, i, i + Len(needle) - 1) = needle

AnyKeyword(s, keywords) ==
    \E i \in 1..Len(keywords) : contains(s, keywords[i])

\* Toolchain::detect
detect_GnuFirst(search_string) ==
    LET lowercased == to_lowercase(search_string) IN
    IF AnyKeyword(lowercased, KEYWORDS_GNU) THEN [kind |-> "some", val |-> "Gnu"]
    ELSE IF AnyKeyword(lowercased, KEYWORDS_MSVC) THEN [kind |-> "some", val |-> "Msvc"]
    ELSE IF AnyKeyword(lowercased, KEYWORDS_MUSL) THEN [kind |-> "some", val |-> "Musl"]
    ELSE None

detect_CaseSensitive(search_string) ==
    LET lowercased == search_string IN
    IF AnyKeyword(lowercased, KEYWORDS_MSVC) THEN [kind |-> "some", val |-> "Msvc"]
    ELSE IF AnyKeyword(lowercased, KEYWORDS_GNU) THEN [kind |-> "some", val |-> "Gnu"]
    ELSE IF AnyKeyword(lowercased, KEYWORDS_MUSL) THEN [kind |-> "some", val |-> "Musl"]
    ELSE None

detect(search_string) ==
    LET lowercased == to_lowercase(search_string) IN
    IF AnyKeyword(lowercased, KEYWORDS_MSVC) THEN [kind |-> "some", val |-> "Msvc"]
    ELSE IF AnyKeyword(lowercased, KEYWORDS_GNU) THEN [kind |-> "some", val |-> "Gnu"]
    ELSE IF AnyKeyword(lowercased, KEYWORDS_MUSL) THEN [kind |-> "some", val |-> "Musl"]
    ELSE None

\* fragments of search strings
Chunks ==
    { <<"m", "s", "v", "c">>, <<"M", "s", "V", "C">>,
      <<"g", "n", "u">>, <<"G", "N", "U">>,
      <<"m", "u", "s", "l">>, <<"M", "U", "s", "L">>,
      <<"m", "s">>, <<"v", "c">>, <<"g", "n">>, <<"u">>,
      <<"-">>, <<Kelvin>>, <<CapitalIDot>> }

RECURSIVE Flatten(_)
Flatten(cs) == IF cs = <<>> THEN <<>> ELSE cs[1] \o Flatten(Tail(cs))

SearchStrings ==
    { Flatten(cs) : cs \in UNION { [1..n -> Chunks] : n \in 0..MaxChunks } }

DetectInit ==
    /\ detectIn \in SearchStrings
    /\ detectOut = Pending
    /\ file = [kind |-> "absent"]
    /\ manifest = None
    /\ authCall = [op |-> "none"]
    /\ locSer = None
    /\ envRoot = [kind |-> "unset"]
    /\ userHome = None
    /\ homePc = "start"
    /\ homeErr = None
    /\ path = None
    /\ loadRes = [s \in Stores |-> "none"]
    /\ held = {}
    /\ did_save = FALSE
    /\ pathStrong = 0
    /\ handle = [h \in Handles |-> "unborn"]
    /\ persist = [h \in Handles |-> [c \in Caches |-> "none"]]
    /\ lastSave = None
    /\ dirty = {}
    /\ warnings = 0
    /\ saveCalled = FALSE
    /\ savedOk = FALSE

\* a call of Toolchain::detect
Toolchain_detect ==
    /\ detectOut = Pending
    /\ detectOut' = detect(detectIn)
    /\ UNCHANGED <<detectIn, homeVars, authVars>>

DetectNext == Toolchain_detect

SpecDetect == DetectInit /\ [][DetectNext]_vars

\* ASCII-only case folding of a string
lowercase_ascii(s) == [i \in 1..Len(s) |-> AsciiLowerChar(s[i])]

MsvcWord == <<"m", "s", "v", "c">>
GnuWord == <<"g", "n", "u">>
MuslWord == <<"m", "u", "s", "l">>

\* C14: detect(s) is Msvc if the (ASCII-)lowercased s contains "msvc",
\* otherwise Gnu if it contains "gnu", otherwise Musl if it contains
\* "musl", otherwise None, wherever in s the keywords occur.
C14_Precedence ==
    detectOut # Pending =>
      LET low == lowercase_ascii(detectIn) IN
      detectOut = IF contains(low, MsvcWord) THEN Some("Msvc")
                  ELSE IF contains(low, GnuWord) THEN Some("Gnu")
                  ELSE IF contains(low, MuslWord) THEN Some("Musl")
                  ELSE None

\* "GNU-MsVC": the GNU keyword comes first, the result is Msvc
C14_Witness ==
    /\ detectIn = <<"G", "N", "U", "-", "M", "s", "V", "C">>
    /\ detectOut = Some("Msvc")

\* C15: detect(s) = detect(lowercase_ascii(s)).
C15_AsciiFoldInvariant ==
    detectOut # Pending => detectOut = detect(lowercase_ascii(detectIn))

\* a string with upper-case ASCII letters and a non-ASCII character that
\* Unicode lowercasing changes and ASCII folding does not
C15_Witness ==
    /\ detectOut = Some("Musl")
    /\ detectIn = <<CapitalIDot, "M", "U", "s", "L">>
    /\ lowercase_ascii(detectIn) # detectIn
    /\ to_lowercase(detectIn) # lowercase_ascii(detectIn)

(***************************************************************************)
(* Home coordinator: handles dropped concurrently on different threads.    *)
(* Drop::drop reads the strong count of the path handle, then (only when   *)
(* that made is_last true) the flag; the fields of the handle, its         *)
(* reference to the path among them, are released after drop() returns.    *)
(* The value of is_last is kept in the state of the handle.                *)
(***************************************************************************)
\* let is_last = Arc::strong_count(&self.path) <= 1
Drop_read_count(h) ==
    /\ handle[h] = "live"
    /\ handle' = [handle EXCEPT ![h] =
                    IF IsLast(pathStrong) THEN "drop_last" ELSE "drop_notlast"]
    /\ UNCHANGED <<envRoot, userHome, homePc, homeErr, path, loadRes, held,
                   did_save, pathStrong, persist, lastSave, dirty, warnings,
                   saveCalled, savedOk>>
    /\ UNCHANGED <<authVars, detectVars>>

\* if is_last && !self.did_save.load(SeqCst) { tracing::error!(..) }
Drop_read_flag(h) ==
    /\ handle[h] \in {"drop_last", "drop_notlast"}
    /\ warnings' = IF handle[h] = "drop_last" /\ ~did_save
                   THEN warnings + 1 ELSE warnings
    /\ handle' = [handle EXCEPT ![h] = "releasing"]
    /\ UNCHANGED <<envRoot, userHome, homePc, homeErr, path, loadRes, held,
                   did_save, pathStrong, persist, lastSave, dirty,
                   saveCalled, savedOk>>
    /\ UNCHANGED <<authVars, detectVars>>

\* the fields of the handle are dropped: the strong count goes down by one
Drop_release(h) ==
    /\ handle[h] = "releasing"
    /\ pathStrong' = pathStrong - 1
    /\ held' = IF pathStrong = 1 THEN {} ELSE held
    /\ handle' = [handle EXCEPT ![h] = "dropped"]
    /\ UNCHANGED <<envRoot, userHome, homePc, homeErr, path, loadRes,
                   did_save, persist, lastSave, dirty, warnings, saveCalled,
                   savedOk>>
    /\ UNCHANGED <<authVars, detectVars>>

DropNext ==
    \/ Home_load_from_env
    \/ \E s \in Stores, ok \in BOOLEAN : Home_load_from_path(s, ok)
    \/ \E h \in Handles : Home_clone(h)
    \/ \E h \in Handles : Drop_read_count(h)
    \/ \E h \in Handles : Drop_read_flag(h)
    \/ \E h \in Handles : Drop_release(h)

SpecDrop == HomeInit /\ [][DropNext]_vars

\* every handle of the coordinator has been dropped and released
AllReleased ==
    /\ homePc = "loaded"
    /\ \A h \in Handles : handle[h] \in {"unborn", "dropped"}

\* C16 (as stated): whatever the interleaving of the Drop steps of the
\* handles of a never-saved coordinator, the warning has been emitted
\* exactly once when all of them are gone.
C16_ExactlyOnceConcurrent ==
    (AllReleased /\ ~saveCalled) => warnings = 1

\* the warning is never emitted twice
C16_AtMostOnce == warnings <= 1

(***************************************************************************)
(* Home coordinator: cancellation, partial persistence, the shared flag    *)
(***************************************************************************)
\* in this step handle h, the last one alive, is dropped
LastDrop(h) ==
    /\ handle[h] = "live"
    /\ handle'[h] = "dropped"
    /\ Alive = {h}

\* C17: a save() cancelled at a suspension point does not change the flag,
\* whether or not one cache had been written; and when no save() has
\* returned Ok, the coordinator whose last handle has been dropped has
\* emitted the warning.
C17_CancelledSaveKeepsFlag ==
    /\ [](~savedOk /\ AllDropped => warnings = 1)
    /\ [][ (SaveEnds /\ lastSave'.ret = "cancelled") =>
              did_save' = did_save ]_homeVars

\* the latest save was cancelled after one cache had been written, no save
\* ever returned Ok, and the last handle has been dropped with the warning
C17_Witness ==
    /\ lastSave # None
    /\ lastSave.ret = "cancelled"
    /\ \E c \in Caches : lastSave.res[c] = "ok"
    /\ ~savedOk
    /\ AllDropped
    /\ warnings = 1

\* C18: save() persists the trust and the install cache and nothing else;
\* it has returned Ok only with both persisted; a save() that returned Err
\* returned the error of the one persist that failed, the other cache being
\* either persisted or not.
C18_OkOnlyWhenBothPersisted ==
    /\ \A h \in Handles :
          /\ DOMAIN persist[h] = {"trust", "install"}
          /\ handle[h] = "saving" =>
                \A c \in DOMAIN persist[h] : persist[h][c] \in {"pending", "ok"}
    /\ lastSave # None =>
          /\ DOMAIN lastSave.res = {"trust", "install"}
          /\ lastSave.ret = "ok" =>
                \A c \in DOMAIN lastSave.res : lastSave.res[c] = "ok"
          /\ lastSave.ret = "err" =>
                /\ lastSave.err \in DOMAIN lastSave.res
                /\ lastSave.res[lastSave.err] = "err"
                /\ \A c \in DOMAIN lastSave.res \ {lastSave.err} :
                      lastSave.res[c] \in {"ok", "cancelled"}

\* save() returned Err although the other cache had been persisted
C18_Witness ==
    /\ lastSave # None
    /\ lastSave.ret = "err"
    /\ \E c \in Caches : lastSave.res[c] = "ok"

\* save() returned Err and the other cache was not persisted
C18_WitnessNotPersisted ==
    /\ lastSave # None
    /\ lastSave.ret = "err"
    /\ \E c \in Caches : lastSave.res[c] = "cancelled"

\* C19: the flag is one cell shared by all clones: after a save() that
\* returned Ok through one handle the flag is set, and the drop of the last
\* handle emits no warning when that handle is not the one that saved.
C19_FlagSharedByClones ==
    [][ /\ (SaveEnds /\ lastSave'.ret = "ok") => did_save'
        /\ \A h \in Handles :
              (/\ LastDrop(h)
               /\ lastSave # None
               /\ lastSave.ret = "ok"
               /\ lastSave.saver # h) => warnings' = warnings
      ]_homeVars

\* the handle that saved has been dropped first and without a warning, the
\* flag is set, and a different clone is the only handle left
C19_Witness ==
    /\ lastSave # None
    /\ lastSave.ret = "ok"
    /\ handle[lastSave.saver] = "dropped"
    /\ Cardinality(Alive) = 1
    /\ \A h \in Alive : h # lastSave.saver /\ handle[h] = "live"
    /\ did_save
    /\ warnings = 0

\* C20: once true the flag is never reset, whatever happens later (failed
\* or cancelled saves, mutations of the caches); so with the flag set no
\* drop emits the warning, unpersisted mutations or not.
C20_FlagMonotonic ==
    [][ /\ did_save => did_save'
        /\ (did_save /\ \E h \in Handles : LastDrop(h)) =>
              warnings' = warnings
      ]_homeVars

\* a save returned Ok, a later one failed, a cache was mutated and never
\* persisted, and the last handle has been dropped without a warning
C20_Witness ==
    /\ did_save
    /\ lastSave.ret \in {"err", "cancelled"}
    /\ dirty # {}
    /\ AllDropped
    /\ warnings = 0

====
